---------------------------- MODULE Spec2Model ----------------------------
(***************************************************************************)
(* A model of littlecheck (src/littlecheck/littlecheck.py): the directive  *)
(* scanner, the pattern compiler, the substitution engine, the stream      *)
(* matcher and the top-level loop over fixture files.                      *)
(*                                                                         *)
(* Text is a sequence of one-character strings, so that slicing, prefix    *)
(* tests and regular-expression matching are computed and not assumed.     *)
(* A regular expression is the sequence of its lexical tokens; matching    *)
(* computes the set of positions a prefix match can end at, which decides  *)
(* re.match for expressions without back-references.                       *)
(* The SequenceMatcher diff of TestRun.check only feeds the rendering of a *)
(* failure message and is not part of the model.                           *)
(***************************************************************************)
EXTENDS Integers, Sequences, FiniteSets, TLC

VARIABLES
    \* where the modelled call stands
    pc,
    \* TestRun.check on one stream
    lines, checks, outcome, base_outcome,
    \* perform_substitution
    input_str, subs, subbed,
    \* CheckCmd.parse and the compiled matcher
    pattern, subject, compiled, accepted,
    \* main: the fixture files, the loop over them and the process's exit
    files, path_idx, failure_count, exit_status, error,
    \* check_file: the checker, the loop over its run commands and what it did
    checker, run_idx, success, subbed_command, failure, ran, handled,
    \* TestRun.run: the lines the last command wrote to its two streams
    outlines, errlines

checkVars == <<lines, checks, outcome, base_outcome>>
substVars == <<input_str, subs, subbed>>
parseVars == <<pattern, subject, compiled, accepted>>

mainVars == <<files, path_idx, failure_count, exit_status, error>>
fileVars == <<checker, run_idx, success, subbed_command, failure, ran, handled,
              outlines, errlines>>

vars == <<pc, checkVars, substVars, parseVars, mainVars, fileVars>>

-----------------------------------------------------------------------------
(* Bounds of the model.                                                    *)

\* actual lines and patterns handed to TestRun.check
MaxLines == 3
MaxChecks == 2
\* characters of a RUN template
MaxTemplate == 4
\* characters of an embedded regular expression, and of a line matched against it
MaxRegex == 3
MaxSubject == 2
\* fixture paths on the command line
MaxFiles == 2

-----------------------------------------------------------------------------
(* Text helpers.                                                           *)

Whitespace == {" ", "\t", "\n"}


Reverse(s) == [i \in 1..Len(s) |-> s[Len(s) + 1 - i]]

\* s[from:] with a 1-based first index
Tail_from(s, from) == SubSeq(s, from, Len(s))

\* str.startswith
startswith(text, key) ==
    /\ Len(key) <= Len(text)
    /\ SubSeq(text, 1, Len(key)) = key

\* The first index >= from at which sub occurs in text, 0 when there is none.
RECURSIVE FindSub(_, _, _)
FindSub(text, sub, from) ==
    IF from + Len(sub) - 1 > Len(text) THEN 0
    ELSE IF SubSeq(text, from, from + Len(sub) - 1) = sub THEN from
    ELSE FindSub(text, sub, from + 1)

\* str.isspace: at least one character and all of them whitespace
isspace(text) == text # <<>> /\ \A i \in 1..Len(text) : text[i] \in Whitespace

\* All sequences over S of length 0..n
SeqsUpTo(S, n) == UNION {[1..k -> S] : k \in 0..n}

-----------------------------------------------------------------------------
(* Line                                                                    *)

Line(text, number, file) == [text |-> text, number |-> number, file |-> file]

\* Python's None where a Line is expected
NoLine == Line(<<>>, 0, <<>>)

subline(line, text) == Line(text, line.number, line.file)

is_empty_space(line) == line.text = <<>> \/ isspace(line.text)

\* The names of the two output streams
Stdout == <<"s", "t", "d", "o", "u", "t">>
Stderr == <<"s", "t", "d", "e", "r", "r">>

\* Line.readfile, and the list comprehensions of TestRun.run
readfile(texts, name) == [idx \in 1..Len(texts) |-> Line(texts[idx], idx, name)]

-----------------------------------------------------------------------------
(* Regular expressions: tokens and prefix matching (re.match).             *)

Tok(k, c) == [k |-> k, c |-> c]
Lit(c) == Tok("lit", c)
Open == Tok("open", "(?:")
Close == Tok("close", ")")
Alt == Tok("alt", "|")
Star == Tok("star", "*")
Opt == Tok("opt", "?")
Space == Tok("space", "\\s")
AnyChar == Tok("any", ".")
Bol == Tok("bol", "^")
Eol == Tok("eol", "$")

\* The index of the first "|" of re outside every group, 0 when there is none.
RECURSIVE TopLevelAlt(_, _, _)
TopLevelAlt(re, i, depth) ==
    IF i > Len(re) THEN 0
    ELSE IF re[i].k = "alt" /\ depth = 0 THEN i
    ELSE IF re[i].k = "open" THEN TopLevelAlt(re, i + 1, depth + 1)
    ELSE IF re[i].k = "close" THEN TopLevelAlt(re, i + 1, depth - 1)
    ELSE TopLevelAlt(re, i + 1, depth)

\* The index of the ")" closing the group opened before index i (depth groups open).
RECURSIVE MatchingClose(_, _, _)
MatchingClose(re, i, depth) ==
    IF i > Len(re) THEN 0
    ELSE IF re[i].k = "close" /\ depth = 1 THEN i
    ELSE IF re[i].k = "close" THEN MatchingClose(re, i + 1, depth - 1)
    ELSE IF re[i].k = "open" THEN MatchingClose(re, i + 1, depth + 1)
    ELSE MatchingClose(re, i + 1, depth)

\* The last index of the first atom of re: a group up to its ")", or one token.
AtomEnd(re) == IF re[1].k = "open" THEN MatchingClose(re, 2, 1) ELSE 1

\* One token that is no group, matched at each position of S of the text s.
StepToken(t, S, s) ==
    CASE t.k = "lit"   -> {p + 1 : p \in {q \in S : q < Len(s) /\ s[q + 1] = t.c}}
      [] t.k = "any"   -> {p + 1 : p \in {q \in S : q < Len(s) /\ s[q + 1] # "\n"}}
      [] t.k = "space" -> {p + 1 : p \in {q \in S : q < Len(s) /\ s[q + 1] \in Whitespace}}
      [] t.k = "bol"   -> S \cap {0}
      [] t.k = "eol"   -> {p \in S : \/ p = Len(s)
                                     \/ p = Len(s) - 1 /\ s[Len(s)] = "\n"}
      [] OTHER         -> {}

RECURSIVE Ends(_, _, _)
RECURSIVE StepAtom(_, _, _)
RECURSIVE StarAtom(_, _, _)

\* The positions of s at which a match of re that starts at a position of S can end.
Ends(re, S, s) ==
    IF S = {} THEN {}
    ELSE IF re = <<>> THEN S
    ELSE LET bar == TopLevelAlt(re, 1, 0) IN
         IF bar > 0
         THEN Ends(SubSeq(re, 1, bar - 1), S, s) \cup Ends(Tail_from(re, bar + 1), S, s)
         ELSE LET e == AtomEnd(re)
                  atom == SubSeq(re, 1, e)
                  q == IF e < Len(re) /\ re[e + 1].k \in {"star", "opt"}
                       THEN re[e + 1].k ELSE "one"
                  rest == Tail_from(re, IF q = "one" THEN e + 1 ELSE e + 2)
                  after == CASE q = "one"  -> StepAtom(atom, S, s)
                             [] q = "opt"  -> S \cup StepAtom(atom, S, s)
                             [] q = "star" -> StarAtom(atom, S, s)
              IN Ends(rest, after, s)

StepAtom(atom, S, s) ==
    IF atom[1].k = "open"
    THEN Ends(SubSeq(atom, 2, Len(atom) - 1), S, s)
    ELSE StepToken(atom[1], S, s)

StarAtom(atom, S, s) ==
    LET T == S \cup StepAtom(atom, S, s)
    IN IF T = S THEN S ELSE StarAtom(atom, T, s)

\* regex.match(text): a match that starts at the beginning of text
match(re, text) == Ends(re, {0}, text) # {}

\* Whether re.compile accepts the expression: groups balance and every
\* quantifier follows something it can repeat.
RECURSIVE Balanced(_, _, _)
Balanced(re, i, depth) ==
    IF i > Len(re) THEN depth = 0
    ELSE IF re[i].k = "open" THEN Balanced(re, i + 1, depth + 1)
    ELSE IF re[i].k = "close" THEN depth > 0 /\ Balanced(re, i + 1, depth - 1)
    ELSE Balanced(re, i + 1, depth)

re_compiles(re) ==
    /\ Balanced(re, 1, 0)
    /\ \A i \in 1..Len(re) :
          re[i].k \in {"star", "opt"} =>
              /\ i > 1
              /\ re[i - 1].k \notin {"open", "alt", "star", "opt", "bol", "eol"}

\* re.escape of a literal piece: every character matches itself
re_escape(piece) == [i \in 1..Len(piece) |-> Lit(piece[i])]

\* The tokens of the text of an embedded regular expression, for the
\* characters RegexChars below draws expressions from.
LexChar(c) ==
    CASE c = "|" -> Alt
      [] c = "*" -> Star
      [] c = "." -> AnyChar
      [] c = "(" -> Open
      [] c = ")" -> Close
      [] c = "^" -> Bol
      [] c = "$" -> Eol
      [] OTHER   -> Lit(c)

re_lex(piece) == [i \in 1..Len(piece) |-> LexChar(piece[i])]

-----------------------------------------------------------------------------
(* CheckCmd                                                                *)

CheckCmd(line, checktype, regex) == [line |-> line, type |-> checktype, regex |-> regex]

\* Python's None where a CheckCmd is expected
NoCheck == CheckCmd(NoLine, "None", <<>>)

\* bracket_re.split(text): the text around each {{...}} and the text inside
\* it, alternating; the odd indexes are literals, the even ones expressions.
RECURSIVE bracket_split(_)
bracket_split(text) ==
    LET open == FindSub(text, <<"{", "{">>, 1)
        close == IF open = 0 THEN 0 ELSE FindSub(text, <<"}", "}">>, open + 2)
    IN IF close = 0 THEN <<text>>
       ELSE <<SubSeq(text, 1, open - 1), SubSeq(text, open + 2, close - 1)>>
                \o bracket_split(Tail_from(text, close + 2))

\* The {{...}} pieces of the text that re.compile rejects, in order.
invalid_pieces(text) ==
    LET pieces == bracket_split(text)
    IN SelectSeq([i \in 1..Len(pieces) |-> [idx |-> i, piece |-> pieces[i]]],
                 LAMBDA p : p.idx % 2 = 0 /\ ~re_compiles(re_lex(p.piece)))

\* The piece left as it is, without a group around it
not_grouped(s) == s

\* "(?:%s)" % s
non_capturing(s) == <<Open>> \o s \o <<Close>>

\* The concatenation of a sequence of token sequences ("".join)
RECURSIVE join(_)
join(strs) == IF strs = <<>> THEN <<>> ELSE Head(strs) \o join(Tail(strs))

\* The pieces as written into re_strings: literals escaped, expressions as they are
re_pieces(text) ==
    LET pieces == bracket_split(text)
    IN [i \in 1..Len(pieces) |->
            IF i % 2 = 1 THEN re_escape(pieces[i]) ELSE re_lex(pieces[i])]

\* The expression CheckCmd.parse compiles: each piece in a non-capturing
\* group, anchored at both ends with whitespace allowed around it.
full_re(text) ==
    LET re_strings == re_pieces(text)
        grouped == [i \in 1..Len(re_strings) |-> non_capturing(re_strings[i])]
    IN <<Bol, Space, Star>> \o join(grouped) \o <<Space, Star, Lit("\n"), Opt, Eol>>

\* CheckCmd.parse raises CheckerError
parse_raises(line) == invalid_pieces(line.text) # <<>>

\* CheckCmd.parse, when it returns
parse(line, checktype) == CheckCmd(line, checktype, full_re(line.text))

-----------------------------------------------------------------------------
(* TestFailure and TestRun.check                                           *)

TestFailure(line, check, usedlines, usedchecks) ==
    [failure |-> TRUE, line |-> line, check |-> check,
     annotated |-> FALSE, error_annotation_lines |-> <<>>,
     lines |-> usedlines, checks |-> usedchecks]

\* Python's None where a TestFailure is expected: success
None == [failure |-> FALSE, line |-> NoLine, check |-> NoCheck,
         annotated |-> FALSE, error_annotation_lines |-> <<>>,
         lines |-> <<>>, checks |-> <<>>]

Pop(q) == SubSeq(q, 1, Len(q) - 1)
Last(q) == q[Len(q)]

\* The loop "while lineq and checkq": lineq and checkq are the reversed
\* inputs, consumed from their ends.
RECURSIVE match_loop(_)
match_loop(st) ==
    IF st.lineq = <<>> \/ st.checkq = <<>> THEN st
    ELSE LET line == Last(st.lineq)
             check == Last(st.checkq)
         IN IF match(check.regex, line.text)
            THEN match_loop([st EXCEPT !.usedlines = Append(@, line),
                                       !.usedchecks = Append(@, check),
                                       !.lineq = Pop(@),
                                       !.checkq = Pop(@)])
            ELSE IF is_empty_space(line)
            THEN match_loop([st EXCEPT !.lineq = Pop(@)])
            ELSE match_loop([st EXCEPT !.usedlines = Append(@, line),
                                       !.usedchecks = Append(@, check),
                                       !.mismatches = Append(@, <<line, check>>),
                                       !.lineq = Pop(@),
                                       !.checkq = Pop(@)])

\* drain_empties dropping every line left once no pattern is left
drain_everything(lineq) == <<>>

\* "Drain empties": while lineq and lineq[-1].is_empty_space(): lineq.pop()
RECURSIVE drain_empties(_)
drain_empties(lineq) ==
    IF lineq # <<>> /\ is_empty_space(Last(lineq))
    THEN drain_empties(Pop(lineq))
    ELSE lineq

\* check_result reporting of a mismatch the line alone, without its pattern
check_result_line_only(mismatches, lineq, checkq, usedlines, usedchecks) ==
    IF mismatches # <<>>
    THEN TestFailure(mismatches[1][1], NoCheck, usedlines, usedchecks)
    ELSE IF lineq # <<>>
    THEN TestFailure(Last(lineq), NoCheck, usedlines, usedchecks)
    ELSE IF checkq # <<>>
    THEN TestFailure(NoLine, Last(checkq), usedlines, usedchecks)
    ELSE None

\* check_result anchoring a mismatch at the last one recorded
check_result_last_mismatch(mismatches, lineq, checkq, usedlines, usedchecks) ==
    IF mismatches # <<>>
    THEN TestFailure(Last(mismatches)[1], Last(mismatches)[2], usedlines, usedchecks)
    ELSE IF lineq # <<>>
    THEN TestFailure(Last(lineq), NoCheck, usedlines, usedchecks)
    ELSE IF checkq # <<>>
    THEN TestFailure(NoLine, Last(checkq), usedlines, usedchecks)
    ELSE None

\* The outcome of check from what the loops left
check_result(mismatches, lineq, checkq, usedlines, usedchecks) ==
    IF mismatches # <<>>
    THEN TestFailure(mismatches[1][1], mismatches[1][2], usedlines, usedchecks)
    ELSE IF lineq # <<>>
    THEN TestFailure(Last(lineq), NoCheck, usedlines, usedchecks)
    ELSE IF checkq # <<>>
    THEN TestFailure(NoLine, Last(checkq), usedlines, usedchecks)
    ELSE None

\* What check does after its main loop: the drained lineq, the lines and
\* checks kept for the diff, and the outcome
after_drain(st, lineq) ==
    check_result(st.mismatches, lineq, st.checkq,
                 st.usedlines \o SelectSeq(Reverse(lineq), LAMBDA i : ~is_empty_space(i)),
                 st.usedchecks \o Reverse(st.checkq))

after_loop(st) == after_drain(st, drain_empties(st.lineq))

\* TestRun.check(lines, checks)
check(ls, cs) ==
    after_loop(match_loop([lineq |-> Reverse(ls), checkq |-> Reverse(cs),
                           usedlines |-> <<>>, usedchecks |-> <<>>,
                           mismatches |-> <<>>]))

-----------------------------------------------------------------------------
(* perform_substitution                                                    *)

IdentChars ==
    {"a", "b", "c", "d", "e", "f", "g", "h", "i", "j", "k", "l", "m",
     "n", "o", "p", "q", "r", "s", "t", "u", "v", "w", "x", "y", "z",
     "A", "B", "C", "D", "E", "F", "G", "H", "I", "J", "K", "L", "M",
     "N", "O", "P", "Q", "R", "S", "T", "U", "V", "W", "X", "Y", "Z",
     "0", "1", "2", "3", "4", "5", "6", "7", "8", "9", "_", "-"}

\* The keys of a set, longest first
RECURSIVE descending_by_length(_)
descending_by_length(keys) ==
    IF keys = {} THEN <<>>
    ELSE LET k == CHOOSE x \in keys : \A y \in keys : Len(y) <= Len(x)
         IN <<k>> \o descending_by_length(keys \ {k})

\* subs_ordered without reverse=True: the shortest key first
subs_ordered_ascending(sb) ==
    LET keys == Reverse(descending_by_length(DOMAIN sb))
    IN [i \in 1..Len(keys) |-> <<keys[i], sb[keys[i]]>>]

\* sorted(subs.items(), key=lambda s: len(s[0]), reverse=True)
subs_ordered(sb) ==
    LET keys == descending_by_length(DOMAIN sb)
    IN [i \in 1..Len(keys) |-> <<keys[i], sb[keys[i]]>>]

\* subber returning the whole match, m.group(0), when no key fits
RECURSIVE subber_whole_match(_, _)
subber_whole_match(text, ordered) ==
    IF ordered = <<>> THEN <<"%">> \o text
    ELSE IF startswith(text, Head(ordered)[1])
    THEN Head(ordered)[2] \o Tail_from(text, Len(Head(ordered)[1]) + 1)
    ELSE subber_whole_match(text, Tail(ordered))

\* subber(m), text being m.group(1): the first key of the ordered
\* substitutions that text starts with replaces that prefix.
RECURSIVE subber(_, _)
subber(text, ordered) ==
    IF ordered = <<>> THEN text
    ELSE IF startswith(text, Head(ordered)[1])
    THEN Head(ordered)[2] \o Tail_from(text, Len(Head(ordered)[1]) + 1)
    ELSE subber(text, Tail(ordered))

\* The last index of the run of identifier characters that starts at i
RECURSIVE ident_end(_, _)
ident_end(str, i) ==
    IF i < Len(str) /\ str[i + 1] \in IdentChars THEN ident_end(str, i + 1) ELSE i

\* re.sub(r"%(%|[a-zA-Z0-9_-]+)", subber, input_str) from index i on
RECURSIVE re_sub(_, _, _)
re_sub(str, ordered, i) ==
    IF i > Len(str) THEN <<>>
    ELSE IF str[i] = "%" /\ i < Len(str) /\ str[i + 1] = "%"
    THEN subber(<<"%">>, ordered) \o re_sub(str, ordered, i + 2)
    ELSE IF str[i] = "%" /\ i < Len(str) /\ str[i + 1] \in IdentChars
    THEN LET e == ident_end(str, i + 1)
         IN subber(SubSeq(str, i + 1, e), ordered) \o re_sub(str, ordered, e + 1)
    ELSE <<str[i]>> \o re_sub(str, ordered, i + 1)

perform_substitution(str, sb) == re_sub(str, subs_ordered(sb), 1)

-----------------------------------------------------------------------------
(* The directive scanner: RUN_RE, CHECK_STDOUT_RE, CHECK_STDERR_RE.        *)

RUN == <<"R", "U", "N", ":">>
CHECK == <<"C", "H", "E", "C", "K", ":">>
CHECKERR == <<"C", "H", "E", "C", "K", "E", "R", "R", ":">>

NoMatch == [matched |-> FALSE, group1 |-> <<>>]
MatchOf(group1) == [matched |-> TRUE, group1 |-> group1]

\* The first index >= i of text that holds no whitespace (\s* and \s+ are greedy)
RECURSIVE skip_space(_, _)
skip_space(text, i) ==
    IF i <= Len(text) /\ text[i] \in Whitespace THEN skip_space(text, i + 1) ELSE i

\* The last index of text in lo..hi that holds a newline, 0 when there is none
RECURSIVE last_newline(_, _, _)
last_newline(text, lo, hi) ==
    IF hi < lo THEN 0
    ELSE IF text[hi] = "\n" THEN hi
    ELSE last_newline(text, lo, hi - 1)

\* "#\s*" + keyword + "\s+(.*)\n" matched at index h of text
directive_at(text, h, keyword) ==
    LET k == skip_space(text, h + 1)
        a == k + Len(keyword)
        b == skip_space(text, a)
        nl == FindSub(text, <<"\n">>, b)
        \* no newline after the whitespace: \s+ gives back up to a newline of its own
        back == last_newline(text, a + 1, b - 1)
    IN IF text[h] # "#" \/ a - 1 > Len(text) THEN NoMatch
       ELSE IF SubSeq(text, k, a - 1) # keyword \/ b = a THEN NoMatch
       ELSE IF nl > 0 THEN MatchOf(SubSeq(text, b, nl - 1))
       ELSE IF back > 0 THEN MatchOf(<<>>)
       ELSE NoMatch

\* The candidates for the "#" of COMMENT_RE, r'^(?:[^#].*)?#\s*': index 1, or
\* after a prefix that starts with another character and holds no newline
\* after its first character.
comment_starts(text) ==
    IF text = <<>> THEN {}
    ELSE IF text[1] = "#" THEN {1}
    ELSE {h \in 2..Len(text) : \A i \in 2..(h - 1) : text[i] # "\n"}

\* regex.match(line.text) of a directive's regex: the greedy prefix takes the last "#" that works
directive(text, keyword) ==
    LET hs == {h \in comment_starts(text) : directive_at(text, h, keyword).matched}
    IN IF hs = {} THEN NoMatch
       ELSE directive_at(text, CHOOSE h \in hs : \A g \in hs : g <= h, keyword)

\* group1s(regex): the subline holding group 1 of every line that matches
group1s(ls, keyword) ==
    LET hit == SelectSeq(ls, LAMBDA line : directive(line.text, keyword).matched)
    IN [i \in 1..Len(hit) |-> subline(hit[i], directive(hit[i].text, keyword).group1)]

-----------------------------------------------------------------------------
(* RunCmd and Checker                                                      *)

RunCmd(args, line) == [args |-> args, line |-> line]

\* not shlex.split(line.text): a text without quotes splits into no word
\* exactly when it holds only whitespace
RunCmd_raises(line) == \A i \in 1..Len(line.text) : line.text[i] \in Whitespace

RunCmd_parse(line) == RunCmd(line.text, line)

NoError == [type |-> "None", message |-> "None"]
CheckerError(message) == [type |-> "CheckerError", message |-> message]
IndexError == [type |-> "IndexError", message |-> "list index out of range"]

Raised(err) == [error |-> err, runcmds |-> <<>>, outchecks |-> <<>>, errchecks |-> <<>>]

\* The template made of the shebang line: lines[0].text[2:-1] + " %s"
shebang_args(text) == SubSeq(text, 3, Len(text) - 1) \o <<" ", "%", "s">>

\* self.runcmds for the RUN sublines found, or the error raised
runcmds_of(ls, runs) ==
    IF \E i \in 1..Len(runs) : RunCmd_raises(runs[i])
    THEN Raised(CheckerError("Invalid RUN command"))
    ELSE IF runs # <<>>
    THEN [Raised(NoError) EXCEPT !.runcmds = [i \in 1..Len(runs) |-> RunCmd_parse(runs[i])]]
    ELSE IF ls = <<>>
    THEN Raised(IndexError)
    ELSE IF startswith(ls[1].text, <<"#", "!">>)
    THEN [Raised(NoError) EXCEPT !.runcmds = <<RunCmd(shebang_args(ls[1].text), ls[1])>>]
    ELSE Raised(CheckerError("No runlines ('# RUN') found"))

\* "Find run commands"
find_runcmds(ls) == runcmds_of(ls, group1s(ls, RUN))

\* "Find check cmds", after the run commands found
checkcmds_of(found, outs, errs) ==
    IF found.error # NoError THEN found
    ELSE IF \E i \in 1..Len(outs) : parse_raises(outs[i])
    THEN Raised(CheckerError("Invalid regular expression"))
    ELSE IF \E i \in 1..Len(errs) : parse_raises(errs[i])
    THEN Raised(CheckerError("Invalid regular expression"))
    ELSE [found EXCEPT
             !.outchecks = [i \in 1..Len(outs) |-> parse(outs[i], "CHECK")],
             !.errchecks = [i \in 1..Len(errs) |-> parse(errs[i], "CHECKERR")]]

\* Checker.__init__(name, lines): the checker, or the error raised
Checker(ls) == checkcmds_of(find_runcmds(ls), group1s(ls, CHECK), group1s(ls, CHECKERR))

-----------------------------------------------------------------------------
(* TestRun.run                                                             *)

\* POSIX: the status of sh for a command it cannot find
CommandNotFound == 127

\* split_by_newlines(s): s.split("\n") with the newline put back on every part
RECURSIVE split_by_newlines(_)
split_by_newlines(s) ==
    LET nl == FindSub(s, <<"\n">>, 1)
    IN IF nl = 0 THEN <<s \o <<"\n">>>>
       ELSE <<SubSeq(s, 1, nl)>> \o split_by_newlines(Tail_from(s, nl + 1))

\* annotation keeping the last line whatever it is
annotation_untrimmed(elines, errfail) == Tail_from(elines, errfail.line.number)

\* errlines[errfail.line.number - 1:], without a last line that is only a newline
annotation(elines, errfail) ==
    LET rest == Tail_from(elines, errfail.line.number)
    IN IF Last(rest).text = <<"\n">> THEN Pop(rest) ELSE rest

\* What run does with the two outcomes: the annotation, and the failure returned
annotate(outfail, errfail, elines) ==
    IF outfail.failure /\ errfail.failure /\ errfail.line # NoLine
    THEN [outfail EXCEPT !.annotated = TRUE,
                         !.error_annotation_lines = annotation(elines, errfail)]
    ELSE IF outfail.failure THEN outfail ELSE errfail

\* The outcomes of the two streams, given their lines
check_streams(ck, olines, elines) ==
    annotate(check(olines, ck.outchecks), check(elines, ck.errchecks), elines)

\* What run returns for the output of a command that was found
run_result(ck, stdout, stderr) ==
    check_streams(ck, readfile(split_by_newlines(stdout), Stdout),
                      readfile(split_by_newlines(stderr), Stderr))

-----------------------------------------------------------------------------
(* The inputs the checks below draw from.                                  *)

\* lines of a command's output
OutputTexts == {<<"1", "\n">>, <<"2", "\n">>, <<"3", "\n">>, <<"\n">>}

\* payloads of CHECK directives: 1, 3, and {{3|}} which also accepts a blank line
CheckPayloads == {<<"1">>, <<"3">>, <<"{", "{", "3", "|", "}", "}">>}

\* characters of a RUN template, keys and replacements of a substitution
TemplateChars == {"%", "s", "u", " "}
SubKeys == {<<"%">>, <<"s">>, <<"s", "u">>}
SubValues == {<<"%">>, <<"X">>}

\* characters of an embedded regular expression, and of the literal after it
RegexChars == {"b", "c", "|", "*"}
SubjectChars == {"b", "c", "d"}

\* the text of a fixture file, line by line
Fixtures ==
    {<<>>,
     <<<<"x", "\n">>>>,
     <<<<"#", "!", "s", "h", "\n">>, <<"#", " ">> \o CHECK \o <<" ", "1", "\n">>>>,
     <<<<"#", "!", "s", "h">>>>,
     <<<<"#", " ">> \o RUN \o <<" ", "c", "\n">>,
       <<"#", " ">> \o CHECK \o <<" ", "1", "\n">>>>,
     <<<<"#", " ">> \o RUN \o <<" ", "c", "\n">>,
       <<"x", " ", "#">> \o RUN \o <<" ", "%", "s", "\n">>,
       <<"#", " ">> \o CHECK \o <<" ", "1", "\n">>,
       <<"#", " ">> \o CHECKERR \o <<" ", "2", "\n">>>>,
     <<<<"#", " ">> \o RUN \o <<" ", "\n">>>>,
     <<<<"#", " ">> \o RUN \o <<" ", "c", "\n">>,
       <<"#", " ">> \o CHECK \o <<" ", "{", "{", "*", "}", "}", "\n">>>>}

\* what a command writes to its standard output and to its standard error
Stdouts == {<<>>, <<"1", "\n">>, <<"2", "\n">>}
Stderrs == {<<>>, <<"2", "\n">>, <<"2", "\n", "3", "\n">>, <<"3">>, <<"3", "\n", " ">>}

\* the exit statuses of a command
Statuses == {0, 1, CommandNotFound}

\* the i-th path of the command line
path(i) == [k \in 1..i |-> "f"]

\* the value of a variable another specification uses
Idle == <<>>

IdleCheck ==
    /\ lines = Idle /\ checks = Idle /\ outcome = None /\ base_outcome = None
IdleSubst ==
    /\ input_str = Idle /\ subs = Idle /\ subbed = Idle
IdleParse ==
    /\ pattern = Idle /\ subject = Idle /\ compiled = NoCheck /\ accepted = FALSE
IdleFile ==
    /\ checker = Raised(NoError) /\ run_idx = 0 /\ success = TRUE
    /\ subbed_command = Idle /\ failure = None /\ ran = Idle /\ handled = Idle
    /\ outlines = Idle /\ errlines = Idle
IdleMain ==
    /\ files = Idle /\ path_idx = 0 /\ failure_count = 0 /\ exit_status = -1
    /\ error = NoError /\ IdleFile

-----------------------------------------------------------------------------
(* TestRun.check on the lines of one stream.                               *)

InitCheck ==
    /\ pc = "check"
    /\ \E texts \in SeqsUpTo(OutputTexts, MaxLines) :
          lines = readfile(texts, Stdout)
    /\ \E payloads \in SeqsUpTo(CheckPayloads, MaxChecks) :
          checks = [i \in 1..Len(payloads) |->
                        parse(Line(payloads[i], i, <<"f">>), "CHECK")]
    /\ outcome = None
    /\ base_outcome = None
    /\ IdleSubst /\ IdleParse /\ IdleMain

\* outfail = self.check(outlines, self.checker.outchecks)
Check ==
    /\ pc = "check"
    /\ outcome' = check(lines, checks)
    /\ base_outcome' = outcome'
    /\ pc' = "checked"
    /\ UNCHANGED <<lines, checks, substVars, parseVars, mainVars, fileVars>>

\* The same command printing one more blank line between two adjacent
\* lines of its output, checked against the same patterns.
InsertBlank ==
    /\ pc = "checked"
    /\ \E pos \in 1..(Len(lines) - 1) :
          LET texts == [i \in 1..(Len(lines) + 1) |->
                           IF i <= pos THEN lines[i].text
                           ELSE IF i = pos + 1 THEN <<"\n">>
                           ELSE lines[i - 1].text]
          IN /\ lines' = readfile(texts, Stdout)
             /\ outcome' = check(lines', checks)
    /\ pc' = "rechecked"
    /\ UNCHANGED <<checks, base_outcome, substVars, parseVars, mainVars, fileVars>>

NextCheck == Check \/ InsertBlank

SpecCheck == InitCheck /\ [][NextCheck]_vars

-----------------------------------------------------------------------------
(* perform_substitution on a template.                                     *)

InitSubst ==
    /\ pc = "substitute"
    /\ input_str \in SeqsUpTo(TemplateChars, MaxTemplate)
    /\ subs \in UNION {[K -> SubValues] : K \in SUBSET SubKeys}
    /\ subbed = Idle
    /\ IdleCheck /\ IdleParse /\ IdleMain

\* self.subbed_command = perform_substitution(runcmd.args, subs)
Substitute ==
    /\ pc = "substitute"
    /\ subbed' = perform_substitution(input_str, subs)
    /\ pc' = "substituted"
    /\ UNCHANGED <<input_str, subs, checkVars, parseVars, mainVars, fileVars>>

NextSubst == Substitute

SpecSubst == InitSubst /\ [][NextSubst]_vars

-----------------------------------------------------------------------------
(* CheckCmd.parse of a pattern, and the compiled matcher on a line.        *)

\* {{<expression>}}<literal>
PatternTexts ==
    {<<"{", "{">> \o r \o <<"}", "}">> \o l :
        r \in SeqsUpTo(RegexChars, MaxRegex), l \in {<<>>, <<"d">>}}

SubjectTexts == {t \o <<"\n">> : t \in SeqsUpTo(SubjectChars, MaxSubject)}

InitParse ==
    /\ pc = "parse"
    /\ pattern \in PatternTexts
    /\ subject \in SubjectTexts
    /\ compiled = NoCheck
    /\ accepted = FALSE
    /\ IdleCheck /\ IdleSubst /\ IdleMain

\* CheckCmd.parse(sl, "CHECK")
Parse ==
    /\ pc = "parse"
    /\ IF parse_raises(Line(pattern, 1, <<"f">>))
       THEN /\ pc' = "CheckerError"
            /\ UNCHANGED compiled
       ELSE /\ pc' = "parsed"
            /\ compiled' = parse(Line(pattern, 1, <<"f">>), "CHECK")
    /\ UNCHANGED <<pattern, subject, accepted, checkVars, substVars, mainVars, fileVars>>

\* check.regex.match(line.text)
Match ==
    /\ pc = "parsed"
    /\ accepted' = match(compiled.regex, subject)
    /\ pc' = "matched"
    /\ UNCHANGED <<pattern, subject, compiled, checkVars, substVars, mainVars, fileVars>>

NextParse == Parse \/ Match

SpecParse == InitParse /\ [][NextParse]_vars

-----------------------------------------------------------------------------
(* main, check_path and check_file over the fixture files.                 *)

InitMain ==
    /\ pc = "main"
    /\ files \in SeqsUpTo(Fixtures, MaxFiles) \ {<<>>}
    /\ path_idx = 1
    /\ failure_count = 0
    /\ exit_status = -1
    /\ error = NoError
    /\ IdleFile
    /\ IdleCheck /\ IdleSubst /\ IdleParse

\* Default substitution is %% -> %, and subs["s"] = path
main_subs(p) == (<<"%">> :> <<"%">>) @@ (<<"s">> :> p)

\* The index of the run command the loop of check_file turns to next
skip_after_failure(idx, failed) == IF failed THEN idx + 2 ELSE idx + 1

next_runcmd(idx, failed) == idx + 1

\* An exception nothing catches: the traceback, and exit status 1
Uncaught(e) ==
    /\ error' = e
    /\ exit_status' = 1
    /\ pc' = "traceback"

\* main's loop enters check_path(path, ...): check_file reads the lines and
\* constructs the Checker
CheckPath ==
    /\ pc = "main"
    /\ path_idx <= Len(files)
    /\ \E c \in {Checker(readfile(files[path_idx], path(path_idx)))} :
          IF c.error # NoError
          THEN /\ Uncaught(c.error)
               /\ UNCHANGED <<checker, run_idx>>
          ELSE /\ checker' = c
               /\ run_idx' = 1
               /\ pc' = "check_file"
               /\ UNCHANGED <<error, exit_status>>
    /\ success' = TRUE
    /\ subbed_command' = Idle
    /\ failure' = None
    /\ ran' = <<>>
    /\ handled' = <<>>
    /\ outlines' = Idle
    /\ errlines' = Idle
    /\ UNCHANGED <<files, path_idx, failure_count, checkVars, substVars, parseVars>>

\* One turn of "for runcmd in checker.runcmds": TestRun(...).run() and the
\* failure handler
Run ==
    /\ pc = "check_file"
    /\ run_idx <= Len(checker.runcmds)
    /\ subbed_command' = perform_substitution(checker.runcmds[run_idx].args,
                                              main_subs(path(path_idx)))
    /\ \E status \in Statuses, stdout \in Stdouts, stderr \in Stderrs :
          IF status = CommandNotFound
          THEN /\ Uncaught(CheckerError("Command could not be found"))
               /\ ran' = Append(ran, [idx |-> run_idx, matched |-> FALSE, failed |-> FALSE])
               /\ UNCHANGED <<failure, handled, success, run_idx, outlines, errlines>>
          ELSE \E f \in {run_result(checker, stdout, stderr)} :
                  /\ outlines' = readfile(split_by_newlines(stdout), Stdout)
                  /\ errlines' = readfile(split_by_newlines(stderr), Stderr)
                  /\ failure' = f
                  /\ ran' = Append(ran, [idx |-> run_idx, matched |-> TRUE,
                                         failed |-> f.failure])
                  /\ handled' = IF f.failure THEN Append(handled, run_idx) ELSE handled
                  /\ success' = IF f.failure THEN FALSE ELSE success
                  /\ run_idx' = next_runcmd(run_idx, f.failure)
                  /\ UNCHANGED <<error, exit_status, pc>>
    /\ UNCHANGED <<files, path_idx, failure_count, checker, checkVars, substVars, parseVars>>

\* check_file returns success; main counts the failure and turns to the next path
ReturnFile ==
    /\ pc = "check_file"
    /\ run_idx > Len(checker.runcmds)
    /\ failure_count' = IF success THEN failure_count ELSE failure_count + 1
    /\ path_idx' = path_idx + 1
    /\ pc' = "main"
    /\ UNCHANGED <<files, exit_status, error, fileVars, checkVars, substVars, parseVars>>

\* sys.exit(failure_count): the status is its low eight bits
Exit ==
    /\ pc = "main"
    /\ path_idx > Len(files)
    /\ exit_status' = failure_count % 256
    /\ pc' = "exited"
    /\ UNCHANGED <<files, path_idx, failure_count, error, fileVars,
                   checkVars, substVars, parseVars>>

NextMain == CheckPath \/ Run \/ ReturnFile \/ Exit

SpecMain == InitMain /\ [][NextMain]_vars

-----------------------------------------------------------------------------
(* Claims about TestRun.check, under SpecCheck.                            *)

Checked == pc \in {"checked", "rechecked"}

\* The lines and patterns the main loop of check pairs, walked by index:
\* where it stops, and the first pair it rejected (0, 0 when there is none).
RECURSIVE Walk(_, _, _, _, _, _)
Walk(ls, cs, i, j, mi, mj) ==
    IF i > Len(ls) \/ j > Len(cs) THEN [i |-> i, j |-> j, mi |-> mi, mj |-> mj]
    ELSE IF match(cs[j].regex, ls[i].text) THEN Walk(ls, cs, i + 1, j + 1, mi, mj)
    ELSE IF is_empty_space(ls[i]) THEN Walk(ls, cs, i + 1, j, mi, mj)
    ELSE IF mi = 0 THEN Walk(ls, cs, i + 1, j + 1, i, j)
    ELSE Walk(ls, cs, i + 1, j + 1, mi, mj)

\* The indexes of the non-blank lines from index i on
NonBlankFrom(ls, i) == {k \in i..Len(ls) : ~is_empty_space(ls[k])}

Least(S) == CHOOSE k \in S : \A m \in S : k <= m

PriorityOutcome(o, ls, cs, w) ==
    IF w.mi > 0
    THEN o.failure /\ o.line = ls[w.mi] /\ o.check = cs[w.mj]
    ELSE IF NonBlankFrom(ls, w.i) # {}
    THEN o.failure /\ o.line = ls[Least(NonBlankFrom(ls, w.i))] /\ o.check = NoCheck
    ELSE IF w.j <= Len(cs)
    THEN o.failure /\ o.line = NoLine /\ o.check = cs[w.j]
    ELSE o = None

\* C1: check fails at the first non-blank line its pattern rejected; else at the
\* first non-blank line left over, with no pattern; else at the first pattern
\* left over, with no line; else it succeeds.
C1_OutcomePriority ==
    Checked => PriorityOutcome(outcome, lines, checks, Walk(lines, checks, 1, 1, 0, 0))

Texts(ls) == [i \in 1..Len(ls) |-> ls[i].text]
Payloads(cs) == [i \in 1..Len(cs) |-> cs[i].line.text]

\* C1 witness: lines 1, 2, 3 against the checks 1, 3 fail at line "2" and check "3",
\* with line "3" left over.
C1_Witness ==
    /\ pc = "checked"
    /\ Texts(lines) = <<<<"1", "\n">>, <<"2", "\n">>, <<"3", "\n">>>>
    /\ Payloads(checks) = <<<<"1">>, <<"3">>>>
    /\ outcome.failure
    /\ outcome.line = lines[2]
    /\ outcome.check = checks[2]

\* Two outcomes agree: both succeed, or both fail at the same line text and
\* at the same pattern.
SameOutcome(a, b) ==
    /\ a.failure = b.failure
    /\ a.line.text = b.line.text
    /\ a.check = b.check

\* C2: a blank line inserted between two adjacent actual lines never changes
\* the outcome of check, whatever the patterns accept.
C2_BlankInsertionKeepsOutcome ==
    pc = "rechecked" => SameOutcome(outcome, base_outcome)

\* C9 as stated: with no pattern at all, check succeeds whatever the lines are.
C9_NoChecksAlwaysSucceeds ==
    (Checked /\ checks = <<>>) => ~outcome.failure

\* C9 amended: with no pattern at all, check succeeds exactly when every line
\* is blank, and otherwise fails at the first non-blank line, with no pattern.
C9_NoChecksFailOnOutput ==
    (Checked /\ checks = <<>>) =>
        IF NonBlankFrom(lines, 1) = {}
        THEN outcome = None
        ELSE /\ outcome.failure
             /\ outcome.line = lines[Least(NonBlankFrom(lines, 1))]
             /\ outcome.check = NoCheck

\* C9 witness: no pattern, a blank line and then output: the failure is
\* anchored at the output line.
C9_Witness ==
    /\ pc = "checked"
    /\ checks = <<>>
    /\ Len(lines) >= 2
    /\ is_empty_space(lines[1])
    /\ outcome.failure
    /\ outcome.line = lines[2]
    /\ outcome.check = NoCheck

-----------------------------------------------------------------------------
(* Claims about perform_substitution, under SpecSubst.                     *)

Percents(str) == {i \in 1..Len(str) : str[i] = "%"}

\* The template holds one "%", followed by an identifier: one %identifier token
OneToken(str) ==
    /\ Cardinality(Percents(str)) = 1
    /\ \E i \in Percents(str) : i < Len(str) /\ str[i + 1] \in IdentChars

TokenAt(str) == CHOOSE i \in Percents(str) : TRUE
Before(str) == SubSeq(str, 1, TokenAt(str) - 1)
Identifier(str) == SubSeq(str, TokenAt(str) + 1, ident_end(str, TokenAt(str) + 1))
After(str) == Tail_from(str, ident_end(str, TokenAt(str) + 1) + 1)

\* The registered keys that are a prefix of the identifier
PrefixKeys(sb, ident) == {k \in DOMAIN sb : startswith(ident, k)}
LongestKey(K) == CHOOSE k \in K : \A m \in K : Len(m) <= Len(k)

\* C3 as stated: a token no registered key is a prefix of stays in the
\* result verbatim, its "%" included.
C3_UnregisteredTokenVerbatim ==
    (/\ pc = "substituted"
     /\ OneToken(input_str)
     /\ PrefixKeys(subs, Identifier(input_str)) = {})
        => subbed = input_str

\* C3 amended: a token no registered key is a prefix of is replaced by its
\* identifier: the "%" is dropped and the identifier stays as it is.
C3_UnregisteredTokenLosesPercent ==
    (/\ pc = "substituted"
     /\ OneToken(input_str)
     /\ PrefixKeys(subs, Identifier(input_str)) = {})
        => subbed = Before(input_str) \o Identifier(input_str) \o After(input_str)

\* C3 witness: "%us" with the key "s" registered, which is no prefix of "us"
C3_Witness ==
    /\ pc = "substituted"
    /\ input_str = <<" ", "%", "u", "s">>
    /\ <<"s">> \in DOMAIN subs
    /\ subbed = <<" ", "u", "s">>

\* The template holds "%%" once and no other "%"
OneEscape(str) ==
    \E i \in 1..(Len(str) - 1) : Percents(str) = {i, i + 1}

EscapeAt(str) == Least(Percents(str))

\* A token is replaced by the replacement of the longest key that is a
\* prefix of its identifier, followed by the rest of the identifier.
LongestKeyWins ==
    (/\ pc = "substituted"
     /\ OneToken(input_str)
     /\ PrefixKeys(subs, Identifier(input_str)) # {})
        => LET k == LongestKey(PrefixKeys(subs, Identifier(input_str)))
           IN subbed = Before(input_str) \o subs[k]
                         \o Tail_from(Identifier(input_str), Len(k) + 1)
                         \o After(input_str)

\* C4 as stated: the longest key that is a prefix wins, and "%%" yields a
\* single "%", for every mapping.
C4_LongestKeyAndPercent ==
    /\ LongestKeyWins
    /\ (pc = "substituted" /\ OneEscape(input_str))
          => subbed = SubSeq(input_str, 1, EscapeAt(input_str))
                        \o Tail_from(input_str, EscapeAt(input_str) + 2)

\* C4 amended: the longest key that is a prefix wins, and "%%" yields the
\* replacement registered for the key "%": a single "%" when that is the
\* default "%" or when no key "%" is registered.
C4_LongestKeyAndRegisteredPercent ==
    /\ LongestKeyWins
    /\ (pc = "substituted" /\ OneEscape(input_str))
          => subbed = SubSeq(input_str, 1, EscapeAt(input_str) - 1)
                        \o (IF <<"%">> \in DOMAIN subs THEN subs[<<"%">>] ELSE <<"%">>)
                        \o Tail_from(input_str, EscapeAt(input_str) + 2)

\* C4 witness: the keys "s" and "su" with different replacements on "%suu":
\* the replacement of "su", then "u"
C4_Witness ==
    /\ pc = "substituted"
    /\ input_str = <<"%", "s", "u", "u">>
    /\ {<<"s">>, <<"s", "u">>} \subseteq DOMAIN subs
    /\ subs[<<"s">>] # subs[<<"s", "u">>]
    /\ subbed = subs[<<"s", "u">>] \o <<"u">>

-----------------------------------------------------------------------------
(* Claims about CheckCmd.parse, under SpecParse.                           *)

BarD == <<"{", "{", "b", "|", "c", "}", "}", "d">>

\* C5 as stated: {{b|c}}d rejects "bd" and accepts "b" and "cd".
C5_RejectsBd ==
    (pc = "matched" /\ pattern = BarD) =>
        /\ subject = <<"b", "d", "\n">> => ~accepted
        /\ subject = <<"b", "\n">> => accepted
        /\ subject = <<"c", "d", "\n">> => accepted

\* The alternatives of an expression of letters and "|"
RECURSIVE Alternatives(_)
Alternatives(r) ==
    LET bar == FindSub(r, <<"|">>, 1)
    IN IF bar = 0 THEN {r}
       ELSE {SubSeq(r, 1, bar - 1)} \cup Alternatives(Tail_from(r, bar + 1))

\* The expression between the braces of a pattern {{r}}l, and the literal after it
BracedPart(p) == SubSeq(p, 3, FindSub(p, <<"}", "}">>, 3) - 1)
LiteralPart(p) == Tail_from(p, FindSub(p, <<"}", "}">>, 3) + 2)

\* C5 amended: {{b|c}}d accepts "bd" and "cd" and rejects "b"; a pattern
\* {{r}}l whose r is letters and "|" accepts exactly the lines made of one
\* alternative of r followed by l.
C5_AlternationStaysInItsGroup ==
    /\ (pc = "matched" /\ pattern = BarD) =>
          /\ subject = <<"b", "d", "\n">> => accepted
          /\ subject = <<"b", "\n">> => ~accepted
          /\ subject = <<"c", "d", "\n">> => accepted
    /\ (pc = "matched" /\ \A i \in 1..Len(BracedPart(pattern)) : BracedPart(pattern)[i] # "*")
          => (accepted <=>
                \E alt \in Alternatives(BracedPart(pattern)) :
                    subject = alt \o LiteralPart(pattern) \o <<"\n">>)

\* C5 witness: {{b|c}}d matched against "bd" and accepted
C5_Witness ==
    /\ pc = "matched"
    /\ pattern = BarD
    /\ subject = <<"b", "d", "\n">>
    /\ accepted

-----------------------------------------------------------------------------
(* Claims about check_file and main, under SpecMain.                       *)

\* The process has ended: by sys.exit or by an exception nothing caught
Terminated == pc \in {"exited", "traceback"}

\* check_file has returned for the fixture before path_idx
Returned == pc \in {"main", "exited"} /\ path_idx > 1

\* The numbers of the run commands whose match failed, in the order they ran
RECURSIVE FailedRuns(_)
FailedRuns(rs) ==
    IF rs = <<>> THEN <<>>
    ELSE (IF Head(rs).failed THEN <<Head(rs).idx>> ELSE <<>>) \o FailedRuns(Tail(rs))

\* C6 as stated: a fixture that raises an error is counted as failed and
\* main goes on to every later path: when the process has ended every path
\* has been processed and every error has been counted.
C6_ErrorsAreFixtureScoped ==
    /\ Terminated => path_idx = Len(files) + 1
    /\ error # NoError => failure_count >= 1

\* The fixtures that failed: those check_file returned False for, and the
\* one that raised an error
FailedFixtures == failure_count + (IF error # NoError THEN 1 ELSE 0)

\* C7 as stated: the exit status is the number of fixtures with a failing
\* RUN directive, and it is 0 exactly when every fixture passed.
C7_ExitStatusCountsFailedFixtures ==
    Terminated =>
        /\ exit_status = FailedFixtures
        /\ exit_status = 0 <=> FailedFixtures = 0

\* C8: the run commands of a fixture run in document order without a gap,
\* a match failure does not stop the later ones, every match failure is
\* handed to the failure handler once, and when check_file returns every run
\* command has run and been matched, the fixture being reported as failed
\* exactly when a match failed.
C8_EveryRunDirectiveInOrder ==
    (pc = "check_file" \/ Returned) =>
        /\ \A i \in 1..Len(ran) : ran[i].idx = i /\ ran[i].matched
        /\ pc = "check_file" => run_idx = Len(ran) + 1
        /\ handled = FailedRuns(ran)
        /\ success <=> FailedRuns(ran) = <<>>
        /\ Returned => Len(ran) = Len(checker.runcmds)

\* C8 witness: check_file returned after two run commands, the first of
\* which failed to match
C8_Witness ==
    /\ Returned
    /\ Len(checker.runcmds) = 2
    /\ Len(ran) = 2
    /\ ran[1].failed
    /\ ran[2].matched
    /\ ~success

\* The text of a line without its line terminator
Unterminated(text) ==
    IF text # <<>> /\ Last(text) = "\n" THEN SubSeq(text, 1, Len(text) - 1) ELSE text

\* The checker has just been constructed, or its construction raised
Constructed ==
    \/ pc = "check_file" /\ ran = <<>>
    \/ pc = "traceback" /\ ran = <<>>

\* C10 as stated: the RUN directives found are used; without any, a first
\* line beginning with "#!" gives one run command, the rest of that line
\* without its terminator and " %s"; every other fixture, the empty one
\* included, raises CheckerError "No runlines".
C10_RunDirectiveResolution ==
    Constructed =>
        LET ls == readfile(files[path_idx], path(path_idx))
            runs == group1s(ls, RUN)
        IN IF runs # <<>>
           THEN error = NoError =>
                    [i \in 1..Len(checker.runcmds) |-> checker.runcmds[i].args]
                        = [i \in 1..Len(runs) |-> runs[i].text]
           ELSE IF ls # <<>> /\ startswith(ls[1].text, <<"#", "!">>)
           THEN /\ pc = "check_file"
                /\ Len(checker.runcmds) = 1
                /\ checker.runcmds[1].args
                     = Tail_from(Unterminated(ls[1].text), 3) \o <<" ", "%", "s">>
           ELSE /\ pc = "traceback"
                /\ error = CheckerError("No runlines ('# RUN') found")

-----------------------------------------------------------------------------
(* Claims about the failures check and run return.                         *)

\* A pattern rejected a non-blank line it was paired with
MismatchOccurred(ls, cs) == Walk(ls, cs, 1, 1, 0, 0).mi > 0

LineSet(f) == f.line # NoLine
CheckSet(f) == f.check # NoCheck

\* C11 as stated: in a failure check returns, after a mismatch of a line
\* and a pattern exactly one of the unmatched line and the unmatched pattern
\* is set, and both are unset only when lines or patterns are left over
\* without a mismatch.
C11_ExactlyOneSetOnMismatch ==
    (Checked /\ outcome.failure) =>
        /\ MismatchOccurred(lines, checks) => (LineSet(outcome) /= CheckSet(outcome))
        /\ (~LineSet(outcome) /\ ~CheckSet(outcome)) => ~MismatchOccurred(lines, checks)

\* C11 amended: in a failure check returns, after a mismatch of a line and
\* a pattern both the unmatched line and the unmatched pattern are set;
\* without a mismatch exactly one of them is set, the line when a non-blank
\* line is left over and the pattern otherwise; they are never both unset.
C11_BothSetOnMismatch ==
    (Checked /\ outcome.failure) =>
        /\ MismatchOccurred(lines, checks) => (LineSet(outcome) /\ CheckSet(outcome))
        /\ ~MismatchOccurred(lines, checks) => (LineSet(outcome) /= CheckSet(outcome))
        /\ LineSet(outcome) \/ CheckSet(outcome)

\* C11 witness: the line "2" against the check "1" fails with both the
\* line and the pattern set
C11_Witness ==
    /\ pc = "checked"
    /\ Texts(lines) = <<<<"2", "\n">>>>
    /\ Payloads(checks) = <<<<"1">>>>
    /\ outcome.failure
    /\ outcome.line = lines[1]
    /\ outcome.check = checks[1]

\* run has returned for the last run command that ran
RunReturned == ran # <<>> /\ Last(ran).matched

\* The outcomes of the stdout match and of the stderr match of that run
OutFail == check(outlines, checker.outchecks)
ErrFail == check(errlines, checker.errchecks)

\* The lines of ls from the line l on
FromLine(ls, l) ==
    LET first == CHOOSE i \in 1..Len(ls) : ls[i] = l
    IN [i \in 1..(Len(ls) - first + 1) |-> ls[first + i - 1]]

\* ls without its last line when that line is blank: empty or whitespace only
WithoutTrailingBlank(ls) ==
    IF is_empty_space(ls[Len(ls)]) THEN [i \in 1..(Len(ls) - 1) |-> ls[i]] ELSE ls

\* ls without its last line when that line is a line terminator and nothing else
WithoutTrailingNewline(ls) ==
    IF ls[Len(ls)].text = <<"\n">> THEN [i \in 1..(Len(ls) - 1) |-> ls[i]] ELSE ls

\* The failure f is the stdout failure o, whatever its annotation
IsOutFail(f, o) ==
    /\ f.failure
    /\ f.line = o.line /\ f.check = o.check
    /\ f.lines = o.lines /\ f.checks = o.checks

\* Annotated exactly when both matches failed and the stderr failure has a
\* line; unset otherwise; run returns the stdout failure, else the stderr
\* failure, else success.
AnnotatedWhenBothFail ==
    /\ failure.annotated <=> (OutFail.failure /\ ErrFail.failure /\ LineSet(ErrFail))
    /\ ~failure.annotated => failure.error_annotation_lines = <<>>
    /\ IF OutFail.failure THEN IsOutFail(failure, OutFail) ELSE failure = ErrFail

\* C12 as stated: the stdout failure is annotated exactly when both matches
\* failed and the stderr failure has an unmatched line; the annotation is
\* the stderr lines from that line to the end with one trailing blank line
\* removed; run returns the stdout failure, else the stderr failure, else
\* success.
C12_AnnotationTrimsBlankLine ==
    RunReturned =>
        /\ AnnotatedWhenBothFail
        /\ failure.annotated =>
              failure.error_annotation_lines
                  = WithoutTrailingBlank(FromLine(errlines, ErrFail.line))

\* C12 amended: as stated, the line removed from the end of the annotation
\* being a last line that is a line terminator and nothing else; a last
\* line of whitespace is kept.
C12_AnnotationTrimsNewline ==
    RunReturned =>
        /\ AnnotatedWhenBothFail
        /\ failure.annotated =>
              failure.error_annotation_lines
                  = WithoutTrailingNewline(FromLine(errlines, ErrFail.line))

\* C12 witness: stdout "2" against CHECK 1 and stderr "2", "3" against
\* CHECKERR 2 both fail; the stdout failure is returned, annotated with the
\* stderr line "3" alone, the empty last line being removed
C12_Witness ==
    /\ RunReturned
    /\ OutFail.failure /\ ErrFail.failure
    /\ Texts(errlines) = <<<<"2", "\n">>, <<"3", "\n">>, <<"\n">>>>
    /\ ErrFail.line = errlines[2]
    /\ failure.annotated
    /\ failure.line = outlines[1]
    /\ failure.error_annotation_lines = <<errlines[2]>>

=============================================================================
